---- MODULE Spec2Model ----
(***************************************************************************)
(* Model of src/find-communities-louvain.py: the graph built from the node *)
(* and edge tables (build_graph), Louvain community detection              *)
(* (compute_communities) and the per-community ForceAtlas2 layout composed *)
(* on a circle (compute_global_layout).                                    *)
(*                                                                         *)
(* Weights are integers in an arbitrary unit (modularity and the threshold *)
(* test only compare weights); a weight is a record [fin, v]: fin = TRUE   *)
(* for the finite number v, fin = FALSE for +inf (v = 1) and NaN (v = 0).  *)
(***************************************************************************)
EXTENDS Integers, Sequences, FiniteSets, TLC

VARIABLES
    nodes_df,       \* the node table's Id column
    edges_df,       \* the edge table handed to the next step
    G,              \* the nx.Graph under construction, then read-only
    pc,             \* where main() is
    row,            \* the row a loop of build_graph is at
    run,            \* which of two runs on the same graph is under way
    lv,             \* best_partition's locals while it runs
    partition,      \* run -> the partition compute_communities returned
    communities,    \* run -> the communities dictionary, in its iteration order
    modularity,     \* run -> the modularity compute_communities returned
    error,          \* the exception that ended main(), "" while none
    stream0,        \* the state RandomState(0) starts in: fixed, whatever it is
    py_random,      \* the state of the process-wide generator of module random
    lay,            \* compute_global_layout's locals
    pos             \* run -> the Position map compute_global_layout returned

inputVars == <<nodes_df, edges_df, G, row, stream0>>
detectVars == <<run, lv, partition, communities, modularity, error>>
layoutVars == <<py_random, lay, pos>>
vars == <<nodes_df, edges_df, G, pc, row, stream0, run, lv, partition, communities,
          modularity, error, py_random, lay, pos>>

\* ------------------------------------------------------------------ bounds
\* Largest node id of the node table (ids are 1..MaxNodes).
MaxNodes == 3
\* Largest number of rows of an arbitrary edge table handed to build_graph.
MaxRows == 2
\* How many states a generator may start in.
RngSeeds == 2
\* Iterations of the layout engine (the program asks for 5000).
Iterations == 1
\* The weights calculate_edges may give a pair, in the unit of the model.
RawWeights == {1, 2, 3}
\* main()'s threshold, in the same unit: weight 1 is filtered out.
Threshold == 2

\* ----------------------------------------------------------------- weights
Fin(n) == [fin |-> TRUE, v |-> n]
Inf == [fin |-> FALSE, v |-> 1]
NaN == [fin |-> FALSE, v |-> 0]

\* The weights an arbitrary edge table can hold: negative, zero, positive,
\* infinite, not-a-number.
AnyWeights == {Fin(0 - 1), Fin(0), Fin(1), Fin(2), Inf, NaN}

NodeIds == 1 .. MaxNodes

\* A row of edges_df: the columns Source, Target, Weight.
EdgeRows == [Source : NodeIds, Target : NodeIds, Weight : AnyWeights]

RECURSIVE SeqsUpTo(_, _)
SeqsUpTo(S, n) ==
    IF n = 0 THEN {<<>>}
    ELSE LET shorter == SeqsUpTo(S, n - 1)
         IN shorter \cup {Append(s, x) : s \in {t \in shorter : Len(t) = n - 1}, x \in S}

\* The node table's Id column: ids 1..n in table order.
NodeTable(n) == [k \in 1 .. n |-> k]

\* ------------------------------------------------------------ nx.Graph
\* nx.Graph(): nodes in insertion order, and one attribute dictionary per
\* unordered pair (a self-loop is the pair {u}).
EmptyGraph == [nodes |-> <<>>, adj |-> <<>>]

Range(s) == {s[k] : k \in DOMAIN s}

\* G.add_node(n): a node already present is left where it is.
AddNode(g, n) ==
    IF n \in Range(g.nodes) THEN g
    ELSE [g EXCEPT !.nodes = Append(g.nodes, n)]

\* The weight G.add_edge leaves on a pair that may already hold one:
\* datadict.update(attr) replaces the old 'weight'.
StoredWeight(old, w) == w

\* G.add_edge(u, v, weight=w): both endpoints become nodes (u first), and the
\* pair's attribute dictionary is updated with the new weight.
AddEdge(g, u, v, w) ==
    LET g2 == AddNode(AddNode(g, u), v)
        e == {u, v}
        old == IF e \in DOMAIN g.adj THEN g.adj[e] ELSE Fin(0)
    IN [g2 EXCEPT !.adj = [x \in (DOMAIN g.adj) \cup {e} |->
                              IF x = e THEN StoredWeight(old, w) ELSE g.adj[x]]]

\* ------------------------------------------------------------ build_graph
\* G = nx.Graph()
BuildStart ==
    /\ pc = "build"
    /\ G' = EmptyGraph
    /\ row' = 1
    /\ pc' = "edges"
    /\ UNCHANGED <<nodes_df, edges_df, stream0>>
    /\ UNCHANGED <<detectVars, layoutVars>>

\* One turn of `for _, edge in edges_df.iterrows(): G.add_edge(...)`.
BuildAddEdge ==
    /\ pc = "edges"
    /\ row <= Len(edges_df)
    /\ G' = AddEdge(G, edges_df[row].Source, edges_df[row].Target, edges_df[row].Weight)
    /\ row' = row + 1
    /\ UNCHANGED <<nodes_df, edges_df, pc, stream0>>
    /\ UNCHANGED <<detectVars, layoutVars>>

\* The edge loop is over; the node loop starts.
BuildEdgesDone ==
    /\ pc = "edges"
    /\ row > Len(edges_df)
    /\ row' = 1
    /\ pc' = "nodes"
    /\ UNCHANGED <<nodes_df, edges_df, G, stream0>>
    /\ UNCHANGED <<detectVars, layoutVars>>

\* One turn of `for _, node in nodes_df.iterrows(): G.add_node(node_id)`.
BuildAddNode ==
    /\ pc = "nodes"
    /\ row <= Len(nodes_df)
    /\ G' = AddNode(G, nodes_df[row])
    /\ row' = row + 1
    /\ UNCHANGED <<nodes_df, edges_df, pc, stream0>>
    /\ UNCHANGED <<detectVars, layoutVars>>

\* return G
BuildReturn ==
    /\ pc = "nodes"
    /\ row > Len(nodes_df)
    /\ pc' = "built"
    /\ UNCHANGED <<nodes_df, edges_df, G, row, stream0>>
    /\ UNCHANGED <<detectVars, layoutVars>>

\* ------------------------------------------------- pseudo-random generators
\* A generator's step: the state after one draw. The libraries use the
\* Mersenne Twister; the model keeps what matters here, that a draw is a
\* function of the state and moves it on, with a full-period congruence.
NextState(s) == (5 * s + 1) % 8

Swap(seq, i, j) == [seq EXCEPT ![i] = seq[j], ![j] = seq[i]]

\* RandomState.shuffle: for i from the last place down to the second, swap
\* place i with a drawn place j <= i.
RECURSIVE ShuffleFrom(_, _, _)
ShuffleFrom(seq, i, s) ==
    IF i <= 1 THEN [items |-> seq, state |-> s]
    ELSE LET s2 == NextState(s)
         IN ShuffleFrom(Swap(seq, i, 1 + (s2 % i)), i - 1, s2)

\* community.__randomize(items, random_state): a shuffled list of the items.
Randomize(seq, s) == ShuffleFrom(seq, Len(seq), s)

\* ---------------------------------------------------------- sums and lists
RECURSIVE SetSum(_, _)
SetSum(S, f) ==
    IF S = {} THEN 0
    ELSE LET x == CHOOSE y \in S : TRUE
         IN f[x] + SetSum(S \ {x}, f)

\* The values of a sequence in order of first appearance (the key order of a
\* dictionary filled in that order).
RECURSIVE FirstSeen(_)
FirstSeen(seq) ==
    IF seq = <<>> THEN <<>>
    ELSE LET rest == FirstSeen(SubSeq(seq, 1, Len(seq) - 1))
             x == seq[Len(seq)]
         IN IF x \in Range(rest) THEN rest ELSE Append(rest, x)

\* The members of a set of integers in ascending order.
RECURSIVE Ascending(_)
Ascending(S) ==
    IF S = {} THEN <<>>
    ELSE LET x == CHOOSE y \in S : \A z \in S : y <= z
         IN <<x>> \o Ascending(S \ {x})

\* ------------------------------------------------ community.Status on a graph
\* graph.copy() as best_partition reads it: the finite weights as numbers.
CopyGraph(g) == [nodes |-> g.nodes, adj |-> [e \in DOMAIN g.adj |-> g.adj[e].v]]

\* graph.size(weight): every edge's weight once, a self-loop's too.
Size(g) == SetSum(DOMAIN g.adj, g.adj)

\* graph.degree(node, weight): a self-loop counts twice.
Degree(g, n) ==
    SetSum({e \in DOMAIN g.adj : n \in e},
           [e \in DOMAIN g.adj |-> IF e = {n} THEN 2 * g.adj[e] ELSE g.adj[e]])

\* status.degrees[com]: the degrees of the nodes now in com.
ComDegree(g, n2c, c) ==
    SetSum({n \in Range(g.nodes) : n2c[n] = c}, [n \in Range(g.nodes) |-> Degree(g, n)])

\* status.internals[com]: the weight of the edges inside com, loops included.
ComInternal(g, n2c, c) ==
    SetSum({e \in DOMAIN g.adj : \A n \in e : n2c[n] = c}, g.adj)

\* community.__modularity(status, resolution=1), times 4 * total_weight^2:
\*   sum over communities of in/links - (degree / (2 links))^2.
Modularity4m2(g, n2c) ==
    LET links == Size(g)
        coms == {n2c[n] : n \in Range(g.nodes)}
    IN IF links > 0
       THEN SetSum(coms, [c \in coms |->
                4 * links * ComInternal(g, n2c, c) - ComDegree(g, n2c, c) * ComDegree(g, n2c, c)])
       ELSE 0

\* community.__neighcom: the communities of the node's neighbours (the node
\* itself left out), in the order met, each with the weight linking to it.
NeighCom(g, n2c, node) ==
    LET nbrs == SelectSeq(g.nodes, LAMBDA x : x # node /\ {x, node} \in DOMAIN g.adj)
        coms == FirstSeen([k \in 1 .. Len(nbrs) |-> n2c[nbrs[k]]])
    IN [k \in 1 .. Len(coms) |->
          [com |-> coms[k],
           dnc |-> SetSum({x \in Range(nbrs) : n2c[x] = coms[k]},
                          [x \in Range(nbrs) |-> g.adj[{x, node}]])]]

\* The loop over the shuffled neighbour communities of __one_level:
\*   if incr > best_increase: best_increase = incr; best_com = com
RECURSIVE BestCom(_, _, _)
BestCom(cands, k, best) ==
    IF k > Len(cands) THEN best
    ELSE IF cands[k].increase > best.increase
         THEN BestCom(cands, k + 1, cands[k])
         ELSE BestCom(cands, k + 1, best)

\* One turn of `for node in __randomize(graph.nodes(), random_state)`:
\* remove the node from its community, insert it where the gain is best.
\*   incr = remove_cost + dnc - degrees[com] * degc_totw
\* is compared times 2 * total_weight, where it is an integer.
VisitNode(g, st, node) ==
    LET n2c == st.node2com
        com_node == n2c[node]
        deg == Degree(g, node)
        neigh == NeighCom(g, n2c, node)
        own == SetSum({k \in DOMAIN neigh : neigh[k].com = com_node},
                      [k \in DOMAIN neigh |-> neigh[k].dnc])
        removed == [n2c EXCEPT ![node] = 0 - 1]
        rest == ComDegree(g, n2c, com_node) - deg
        sh == Randomize(neigh, st.state)
        incr(c) == 2 * Size(g) * (c.dnc - own) + deg * (rest - ComDegree(g, removed, c.com))
        cands == [k \in 1 .. Len(sh.items) |->
                    [com |-> sh.items[k].com, increase |-> incr(sh.items[k])]]
        best == BestCom(cands, 1, [com |-> com_node, increase |-> 0])
    IN [node2com |-> [n2c EXCEPT ![node] = best.com],
        state |-> sh.state,
        modified |-> st.modified \/ best.com # com_node]

RECURSIVE VisitAll(_, _, _, _)
VisitAll(g, st, order, k) ==
    IF k > Len(order) THEN st
    ELSE VisitAll(g, VisitNode(g, st, order[k]), order, k + 1)

\* One pass of __one_level's while loop over the shuffled nodes.
OnePass(g, n2c, s) ==
    LET sh == Randomize(g.nodes, s)
    IN VisitAll(g, [node2com |-> n2c, state |-> sh.state, modified |-> FALSE], sh.items, 1)

\* Status.init(graph): node number k of the graph starts alone in community k.
StatusInit(g) == [k \in 1 .. Len(g.nodes) |-> k - 1]

InitialNode2Com(g) == [n \in Range(g.nodes) |->
                          StatusInit(g)[CHOOSE k \in 1 .. Len(g.nodes) : g.nodes[k] = n]]

\* community.__renumber: communities renumbered 0..n-1; an id already in
\* that range is kept, the others take the free ids, both in ascending order.
Renumber(n2c) ==
    LET values == {n2c[n] : n \in DOMAIN n2c}
        target == 0 .. (Cardinality(values) - 1)
        from == Ascending(values \ target)
        to == Ascending(target \ values)
        renumbering(v) == IF v \in target THEN v
                          ELSE to[CHOOSE k \in 1 .. Len(from) : from[k] = v]
    IN [n \in DOMAIN n2c |-> renumbering(n2c[n])]

\* community.induced_graph(partition, graph): one node per community (in the
\* order the partition lists them), the weights between two communities
\* summed; the edges inside a community become its self-loop.
InducedGraph(part, g) ==
    LET coms == FirstSeen([k \in 1 .. Len(g.nodes) |-> part[g.nodes[k]]])
        image(e) == {part[n] : n \in e}
        edges == {image(e) : e \in DOMAIN g.adj}
    IN [nodes |-> coms,
        adj |-> [f \in edges |->
                   SetSum({e \in DOMAIN g.adj : image(e) = f}, g.adj)]]

\* community.partition_at_level(dendrogram, level): the levels composed.
RECURSIVE PartitionAtLevel(_, _)
PartitionAtLevel(dendo, level) ==
    IF level = 1 THEN dendo[1]
    ELSE LET below == PartitionAtLevel(dendo, level - 1)
         IN [n \in DOMAIN below |-> dendo[level][below[n]]]

\* The states a generator seeded from the system can start in.
UnseededStates == 0 .. (RngSeeds - 1)

\* As Seeds with the randomize argument left out of the call: the generator
\* is seeded from the system.
SeedsUnseeded(randomize) == UnseededStates

\* How best_partition seeds its generator: randomize=False sets
\* random_state = 0, whose stream is the same in every run; left unset, the
\* generator is seeded from the system.
Seeds(randomize) == IF randomize = FALSE THEN {stream0} ELSE UnseededStates

\* community.__PASS_MAX: the pass count at which __one_level stops.
PASS_MAX == 0 - 1

\* As BelowMin with the difference compared with 0 in place of __MIN: a
\* pass or level that gains nothing does not count as below it.
BelowMinNegative(d, links) == d < 0

\* `new_mod - cur_mod < __MIN` with __MIN = 0.0000001, for a difference d
\* that is scaled by 4 * links^2.
BelowMin(d, links) == d <= (4 * links * links - 1) \div 10000000

Runs == 1 .. 2

NoLouvain == [cg |-> EmptyGraph, node2com |-> <<>>, state |-> 0, dendo |-> <<>>,
              mod |-> 0, new_mod |-> 0, nb_pass_done |-> 0]

\* compute_communities calls best_partition(G, resolution=1, randomize=False);
\* generate_dendrogram seeds its generator and, for a graph with no edge,
\* returns every node in a community of its own.
DetectStart ==
    /\ pc = "built"
    /\ \E seed \in Seeds(FALSE) :
         IF DOMAIN G.adj = {}
         THEN /\ lv' = [NoLouvain EXCEPT !.state = seed, !.dendo = <<InitialNode2Com(G)>>]
              /\ pc' = "detected"
         ELSE /\ lv' = [NoLouvain EXCEPT
                           !.cg = CopyGraph(G),
                           !.node2com = InitialNode2Com(G),
                           !.state = seed,
                           !.new_mod = Modularity4m2(CopyGraph(G), InitialNode2Com(G))]
              /\ pc' = "pass"
    /\ UNCHANGED <<inputVars, run, partition, communities, modularity, error, layoutVars>>

\* One pass of `while modified and nb_pass_done != __PASS_MAX` in __one_level.
LouvainPass ==
    /\ pc = "pass"
    /\ LET res == OnePass(lv.cg, lv.node2com, lv.state)
           new_mod == Modularity4m2(lv.cg, res.node2com)
           done == lv.nb_pass_done + 1
           again == /\ res.modified
                    /\ ~BelowMin(new_mod - lv.new_mod, Size(lv.cg))
                    /\ done # PASS_MAX
       IN /\ lv' = [lv EXCEPT !.node2com = res.node2com, !.state = res.state,
                              !.new_mod = new_mod, !.nb_pass_done = done]
          /\ pc' = IF again THEN "pass" ELSE "level"
    /\ UNCHANGED <<inputVars, run, partition, communities, modularity, error, layoutVars>>

\* generate_dendrogram after __one_level: the first level is always kept; a
\* later one ends the loop when it gains less than __MIN, else it is
\* renumbered, appended, and the induced graph becomes the current graph.
LouvainLevel ==
    /\ pc = "level"
    /\ IF Len(lv.dendo) > 0 /\ BelowMin(lv.new_mod - lv.mod, Size(lv.cg))
       THEN /\ pc' = "detected"
            /\ lv' = lv
       ELSE LET part == Renumber(lv.node2com)
                next == InducedGraph(part, lv.cg)
            IN /\ lv' = [lv EXCEPT !.dendo = Append(lv.dendo, part),
                                   !.mod = lv.new_mod,
                                   !.cg = next,
                                   !.node2com = InitialNode2Com(next),
                                   !.new_mod = Modularity4m2(next, InitialNode2Com(next)),
                                   !.nb_pass_done = 0]
               /\ pc' = "pass"
    /\ UNCHANGED <<inputVars, run, partition, communities, modularity, error, layoutVars>>

\* community.modularity(partition, graph): raises ValueError on a graph
\* without links, else sum of inc/links - (deg / (2 links))^2 as a fraction.
ModularityOf(part, g) ==
    IF Size(g) = 0 THEN [raises |-> "ValueError", num |-> 0, den |-> 1]
    ELSE [raises |-> "", num |-> Modularity4m2(g, part), den |-> 4 * Size(g) * Size(g)]

\* As CommunitiesOf with `communities[community_id] = [node]` in place of
\* setdefault(...).append(node): each id keeps only the node met last.
CommunitiesOfAssign(part, order) ==
    LET ids == FirstSeen([k \in 1 .. Len(order) |-> part[order[k]]])
    IN [k \in 1 .. Len(ids) |->
          LET members == SelectSeq(order, LAMBDA n : part[n] = ids[k])
          IN [id |-> ids[k], nodes |-> <<members[Len(members)]>>]]

\* communities.setdefault(community_id, []).append(node) over
\* partition.items(): the ids in the order first met, each with its nodes.
CommunitiesOf(part, order) ==
    LET ids == FirstSeen([k \in 1 .. Len(order) |-> part[order[k]]])
    IN [k \in 1 .. Len(ids) |->
          [id |-> ids[k], nodes |-> SelectSeq(order, LAMBDA n : part[n] = ids[k])]]

\* The rest of compute_communities: the partition of the last level, its
\* modularity, and the communities dictionary.
DetectReturn ==
    /\ pc = "detected"
    /\ LET part == PartitionAtLevel(lv.dendo, Len(lv.dendo))
           q == ModularityOf(part, CopyGraph(G))
       IN IF q.raises # ""
          THEN /\ error' = q.raises
               /\ pc' = "raised"
               /\ UNCHANGED <<partition, communities, modularity>>
          ELSE /\ partition' = [partition EXCEPT ![run] = part]
               /\ communities' = [communities EXCEPT ![run] = CommunitiesOf(part, G.nodes)]
               /\ modularity' = [modularity EXCEPT ![run] = [num |-> q.num, den |-> q.den]]
               /\ pc' = "layout"
               /\ UNCHANGED error
    /\ lv' = NoLouvain
    /\ UNCHANGED <<inputVars, run, layoutVars>>

\* ------------------------------------------------- compute_global_layout
\* The default of the parameter R, the radius of the circle of anchors.
R == 15

\* random.random() of the process-wide generator: coordinates are on a grid.
Coordinate(s) == s % 3

\* As Subgraph, but built from the edges between the nodes (an edge
\* subgraph): a node without an edge inside is lost.
SubgraphOfEdges(g, nodes) ==
    LET inside == {f \in DOMAIN g.adj : f \subseteq Range(nodes)}
    IN [nodes |-> SelectSeq(g.nodes, LAMBDA n : \E f \in inside : n \in f),
        adj |-> [e \in inside |-> g.adj[e]]]

\* G.subgraph(nodes): the nodes kept in G's order, the edges between them.
Subgraph(g, nodes) ==
    [nodes |-> SelectSeq(g.nodes, LAMBDA n : n \in Range(nodes)),
     adj |-> [e \in {f \in DOMAIN g.adj : f \subseteq Range(nodes)} |-> g.adj[e]]]

\* ForceAtlas2.init with pos=None: node k starts at (random(), random()).
RECURSIVE InitialPositions(_, _, _)
InitialPositions(nodes, k, s) ==
    IF k > Len(nodes) THEN [p |-> <<>>, state |-> s]
    ELSE LET sx == NextState(s)
             sy == NextState(sx)
             rest == InitialPositions(nodes, k + 1, sy)
         IN [p |-> <<[x |-> Coordinate(sx), y |-> Coordinate(sy)]>> \o rest.p,
             state |-> rest.state]

\* One iteration of the engine, kept to its attraction along the edges in
\* whole grid steps (repulsion, gravity and the speed adaptation need real
\* arithmetic and are left out): a deterministic function of the positions.
Fa2Step(sub, p) ==
    LET at(n) == p[CHOOSE k \in 1 .. Len(sub.nodes) : sub.nodes[k] = n]
        nbrs(n) == {m \in Range(sub.nodes) : m # n /\ {m, n} \in DOMAIN sub.adj}
    IN [k \in 1 .. Len(sub.nodes) |->
          LET n == sub.nodes[k]
          IN [x |-> p[k].x + SetSum(nbrs(n), [m \in nbrs(n) |-> at(m).x - p[k].x]),
              y |-> p[k].y + SetSum(nbrs(n), [m \in nbrs(n) |-> at(m).y - p[k].y])]]

RECURSIVE Fa2Iterate(_, _, _)
Fa2Iterate(sub, p, n) == IF n = 0 THEN p ELSE Fa2Iterate(sub, Fa2Step(sub, p), n - 1)

\* fa2.forceatlas2_networkx_layout(subG, pos=None, iterations): one position
\* for every node of subG, from initial positions drawn from the
\* process-wide generator, whose state it leaves advanced.
ForceAtlas2Layout(sub, s) ==
    LET init == InitialPositions(sub.nodes, 1, s)
        final == Fa2Iterate(sub, init.p, Iterations)
    IN [pos_local |-> [k \in 1 .. Len(sub.nodes) |-> [node |-> sub.nodes[k], p |-> final[k]]],
        state |-> init.state]

\* As Centroid with ys read from p[0]: the x coordinates used twice.
CentroidXsTwice(pos_local) ==
    [x |-> SetSum(DOMAIN pos_local, [k \in DOMAIN pos_local |-> pos_local[k].p.x]),
     y |-> SetSum(DOMAIN pos_local, [k \in DOMAIN pos_local |-> pos_local[k].p.x]),
     den |-> Len(pos_local)]

\* centroid = (sum(xs) / len(xs), sum(ys) / len(ys)), as exact fractions
\* over the common denominator len.
Centroid(pos_local) ==
    [x |-> SetSum(DOMAIN pos_local, [k \in DOMAIN pos_local |-> pos_local[k].p.x]),
     y |-> SetSum(DOMAIN pos_local, [k \in DOMAIN pos_local |-> pos_local[k].p.y]),
     den |-> Len(pos_local)]

\* p - centroid, as a fraction over the centroid's denominator.
Recentre(p, c) == [x |-> c.den * p.x - c.x, y |-> c.den * p.y - c.y, den |-> c.den]

\* As AnchorOrder without sorted(): the dictionary's own key order.
AnchorOrderUnsorted(comms) == [k \in DOMAIN comms |-> comms[k].id]

\* The order in which the offsets are handed out: sorted(communities.keys()).
AnchorOrder(comms) == Ascending({comms[k].id : k \in DOMAIN comms})

\* global_offsets: the idx-th id of AnchorOrder gets the anchor at angle
\* 2 * pi * idx / n_comms on the circle of radius R. The anchor is kept as
\* the slot [idx, of] of the circle (cos and sin are not evaluated).
GlobalOffsets(comms) ==
    LET order == AnchorOrder(comms)
        n_comms == Len(comms)
    IN [c \in Range(order) |->
          [radius |-> R,
           idx |-> (CHOOSE k \in 1 .. Len(order) : order[k] = c) - 1,
           of |-> n_comms]]

\* The final loop: pos[node] = p - centroid + offset for every node of every
\* local layout.
GlobalPositions(locals, centroids, offsets) ==
    LET entries == {<<c, k>> \in (DOMAIN locals) \X (1 .. MaxNodes) : k <= Len(locals[c])}
        nodeOf(e) == locals[e[1]][e[2]].node
    IN [n \in {nodeOf(e) : e \in entries} |->
          LET e == CHOOSE f \in entries : nodeOf(f) = n
          IN [rel |-> Recentre(locals[e[1]][e[2]].p, centroids[e[1]]),
              offset |-> offsets[e[1]]]]

NoLayout == [at |-> 0, community_local_positions |-> <<>>, community_centroids |-> <<>>,
             global_offsets |-> <<>>]

\* compute_global_layout starts: the ForceAtlas2 instance, the empty
\* dictionaries. Nothing in the program seeds the process-wide generator: it
\* is in whatever state the interpreter gave it.
LayoutStart ==
    /\ pc = "layout"
    /\ py_random' \in UnseededStates
    /\ lay' = [NoLayout EXCEPT !.at = 1]
    /\ pc' = "locals"
    /\ UNCHANGED <<inputVars, detectVars, pos>>

\* One turn of `for comm_id, nodes in communities.items()`: the local layout
\* of the community's subgraph and its centroid.
LayoutCommunity ==
    /\ pc = "locals"
    /\ lay.at <= Len(communities[run])
    /\ LET comm == communities[run][lay.at]
           res == ForceAtlas2Layout(Subgraph(G, comm.nodes), py_random)
           have == DOMAIN lay.community_local_positions
       IN /\ lay' = [lay EXCEPT
                       !.at = lay.at + 1,
                       !.community_local_positions =
                           [c \in have \cup {comm.id} |->
                               IF c = comm.id THEN res.pos_local
                               ELSE lay.community_local_positions[c]],
                       !.community_centroids =
                           [c \in have \cup {comm.id} |->
                               IF c = comm.id THEN Centroid(res.pos_local)
                               ELSE lay.community_centroids[c]]]
          /\ py_random' = res.state
    /\ UNCHANGED <<inputVars, detectVars, pos, pc>>

\* The offsets on the circle and the final positions; return pos.
LayoutCompose ==
    /\ pc = "locals"
    /\ lay.at > Len(communities[run])
    /\ LET offsets == GlobalOffsets(communities[run])
       IN /\ lay' = [lay EXCEPT !.global_offsets = offsets]
          /\ pos' = [pos EXCEPT ![run] =
                        GlobalPositions(lay.community_local_positions,
                                        lay.community_centroids, offsets)]
    /\ pc' = "composed"
    /\ UNCHANGED <<inputVars, detectVars, py_random>>

\* The program is run a second time on the same graph.
SecondRun ==
    /\ pc = "composed"
    /\ run = 1
    /\ run' = 2
    /\ lay' = NoLayout
    /\ pc' = "built"
    /\ UNCHANGED <<inputVars, lv, partition, communities, modularity, error, py_random, pos>>

\* Both runs are over.
Finish ==
    /\ pc = "composed"
    /\ run = 2
    /\ pc' = "done"
    /\ UNCHANGED <<inputVars, detectVars, layoutVars>>

\* ------------------------------------------------------------- the inputs
\* calculate_edges: one row for every pair i < j of the node table, in the
\* order of the two loops.
RECURSIVE PairsFrom(_, _, _)
PairsFrom(n, i, j) ==
    IF i >= n THEN <<>>
    ELSE IF j > n THEN PairsFrom(n, i + 1, i + 2)
    ELSE <<<<i, j>>>> \o PairsFrom(n, i, j + 1)

CalculatedEdges(n) ==
    LET pairs == PairsFrom(n, 1, 2)
    IN {[k \in 1 .. Len(pairs) |->
            [Source |-> pairs[k][1], Target |-> pairs[k][2], Weight |-> Fin(w[k])]] :
        w \in [1 .. Len(pairs) -> RawWeights]}

\* edge['Weight'] >= threshold: false for NaN, true for +inf.
Geq(w, t) == IF w.fin THEN w.v >= t ELSE w.v = 1

\* filter_edges_by_threshold(edges_df, threshold)
FilterEdges ==
    /\ pc = "filter"
    /\ edges_df' = SelectSeq(edges_df, LAMBDA e : Geq(e.Weight, Threshold))
    /\ pc' = "build"
    /\ UNCHANGED <<nodes_df, G, row, stream0, detectVars, layoutVars>>

NoResults == [r \in Runs |-> <<>>]

InitRest ==
    /\ G = EmptyGraph
    /\ row = 1
    /\ stream0 \in UnseededStates
    /\ run = 1
    /\ lv = NoLouvain
    /\ partition = NoResults
    /\ communities = NoResults
    /\ modularity = NoResults
    /\ error = ""
    /\ py_random = 0
    /\ lay = NoLayout
    /\ pos = NoResults

\* main() on the tables generate-edges.py wrote.
Init ==
    /\ \E n \in 0 .. MaxNodes :
         /\ nodes_df = NodeTable(n)
         /\ edges_df \in CalculatedEdges(n)
    /\ pc = "filter"
    /\ InitRest

Next ==
    \/ FilterEdges
    \/ BuildStart
    \/ BuildAddEdge
    \/ BuildEdgesDone
    \/ BuildAddNode
    \/ BuildReturn
    \/ DetectStart
    \/ LouvainPass
    \/ LouvainLevel
    \/ DetectReturn
    \/ LayoutStart
    \/ LayoutCommunity
    \/ LayoutCompose
    \/ SecondRun
    \/ Finish

Spec == Init /\ [][Next]_vars

\* build_graph on an arbitrary node table and edge table.
InitBuild ==
    /\ nodes_df \in {NodeTable(n) : n \in 0 .. MaxNodes}
    /\ edges_df \in SeqsUpTo(EdgeRows, MaxRows)
    /\ pc = "build"
    /\ InitRest

NextBuild ==
    \/ BuildStart
    \/ BuildAddEdge
    \/ BuildEdgesDone
    \/ BuildAddNode
    \/ BuildReturn

SpecBuild == InitBuild /\ [][NextBuild]_vars

\* ------------------------------------------------------------- properties
\* compute_communities has returned in run r.
Returned(r) == r < run \/ (r = run /\ pc \in {"layout", "locals", "composed", "done"})

\* The nodes of G that no edge touches.
Isolated == {n \in Range(G.nodes) : \A e \in DOMAIN G.adj : n \notin e}

\* How often node n is listed in the communities dictionary of run r.
Listings(r, n) ==
    {<<k, j>> \in (DOMAIN communities[r]) \X (1 .. MaxNodes) :
        j <= Len(communities[r][k].nodes) /\ communities[r][k].nodes[j] = n}

\* C1: the partition best_partition hands to compute_communities gives
\* every node of the graph (isolated ones included) one community id; and
\* whenever compute_communities returns, the communities dictionary lists
\* every node exactly once, under that id, and lists nothing but the
\* graph's nodes.
C1_PartitionCoversNodes ==
    /\ pc = "detected" => DOMAIN PartitionAtLevel(lv.dendo, Len(lv.dendo)) = Range(G.nodes)
    /\ \A r \in Runs : Returned(r) =>
        /\ DOMAIN partition[r] = Range(G.nodes)
        /\ \A n \in Range(G.nodes) :
              /\ Cardinality(Listings(r, n)) = 1
              /\ \A e \in Listings(r, n) : communities[r][e[1]].id = partition[r][n]
        /\ \A k \in DOMAIN communities[r] : Range(communities[r][k].nodes) \subseteq Range(G.nodes)

C1_Witness ==
    /\ pc = "layout"
    /\ Len(G.nodes) = MaxNodes
    /\ Isolated # {}
    /\ \E k \in DOMAIN communities[run] : Len(communities[run][k].nodes) >= 2

\* C2: when compute_global_layout returns, the final coordinates of every
\* community's members are p - centroid + anchor with the community's own
\* anchor, and their recentred parts sum to zero over the common
\* denominator len: the mean of the members' coordinates is the anchor.
C2_MeanIsAnchor ==
    pc = "composed" =>
        \A k \in DOMAIN communities[run] :
            LET c == communities[run][k]
                members == Range(c.nodes)
            IN /\ \A n \in members :
                     /\ pos[run][n].offset = lay.global_offsets[c.id]
                     /\ pos[run][n].rel.den = Cardinality(members)
               /\ SetSum(members, [n \in members |-> pos[run][n].rel.x]) = 0
               /\ SetSum(members, [n \in members |-> pos[run][n].rel.y]) = 0

C2_Witness ==
    /\ pc = "composed"
    /\ \E k \in DOMAIN communities[run] : Len(communities[run][k].nodes) = 1
    /\ \E k \in DOMAIN communities[run] :
          /\ Len(communities[run][k].nodes) >= 2
          /\ lay.community_centroids[communities[run][k].id].x # 0
          /\ lay.community_centroids[communities[run][k].id].x
                # lay.community_centroids[communities[run][k].id].y

\* C3: when compute_global_layout returns, the community whose id has k
\* smaller ids among the N communities has the anchor of slot k of N on the
\* circle of radius R (angle 2 pi k / N), whatever the order of the
\* communities dictionary; the slots are distinct.
C3_AnchorsBySortedId ==
    pc = "composed" =>
        LET ids == {communities[run][k].id : k \in DOMAIN communities[run]}
        IN /\ DOMAIN lay.global_offsets = ids
           /\ \A c \in ids :
                 lay.global_offsets[c] =
                     [radius |-> R,
                      idx |-> Cardinality({d \in ids : d < c}),
                      of |-> Cardinality(ids)]
           /\ \A c, d \in ids : c # d => lay.global_offsets[c].idx # lay.global_offsets[d].idx

C3_Witness ==
    /\ pc = "composed"
    /\ Len(communities[run]) >= 2
    /\ communities[run][1].id > communities[run][2].id

\* C4: the Position map compute_global_layout returns has an entry for
\* every node of the graph and for nothing else.
C4_PositionCoversNodes ==
    pc = "composed" => DOMAIN pos[run] = Range(G.nodes)

C4_Witness ==
    /\ pc = "composed"
    /\ Len(G.nodes) = MaxNodes
    /\ Isolated # {}
    /\ Len(communities[run]) >= 2

\* C5: on a graph without edges compute_communities does not raise and
\* reports the modularity 0.
C5_EdgelessModularityZero ==
    (DOMAIN G.adj = {} /\ pc \in {"raised", "layout", "locals", "composed", "done"}) =>
        /\ error = ""
        /\ modularity[run] # <<>>
        /\ modularity[run].num = 0

\* The rows of edges_df between the two ends of pair e, either way round.
RowsOf(e) == {k \in DOMAIN edges_df : {edges_df[k].Source, edges_df[k].Target} = e}

\* C6: after build_graph, a pair {u, v} of different nodes given by several
\* rows of positive finite weight stores the sum of those weights.
C6_DuplicateRowsSummed ==
    pc = "built" =>
        \A e \in DOMAIN G.adj :
            (/\ Cardinality(e) = 2
             /\ \A k \in RowsOf(e) : edges_df[k].Weight.fin /\ edges_df[k].Weight.v > 0) =>
                G.adj[e] = Fin(SetSum(RowsOf(e), [k \in RowsOf(e) |-> edges_df[k].Weight.v]))

\* C7: every edge the graph stores has a positive finite weight and two
\* different ends: an insertion with weight <= 0, a non-finite weight or
\* u = v is rejected.
C7_OnlyValidEdgesStored ==
    \A e \in DOMAIN G.adj :
        /\ Cardinality(e) = 2
        /\ G.adj[e].fin
        /\ G.adj[e].v > 0

\* C8: two runs of compute_communities on the same graph return the same
\* partition and the same modularity.
C8_DetectorDeterministic ==
    Returned(2) => (partition[1] = partition[2] /\ modularity[1] = modularity[2])

C8_Witness ==
    /\ pc = "done"
    /\ Len(G.nodes) = MaxNodes
    /\ Len(communities[2]) >= 2

\* C9: two runs of compute_global_layout on the same graph, communities and
\* configuration return the same Position map.
C9_LayoutReproducible ==
    pc = "done" => pos[1] = pos[2]

\* C10: a per-community layout call writes only the result slots of its own
\* community and touches no state the other calls read.
C10_LayoutCallsShareNoState ==
    [][LayoutCommunity =>
        /\ py_random' = py_random
        /\ \A c \in DOMAIN lay.community_local_positions :
              lay'.community_local_positions[c] = lay.community_local_positions[c]]_vars

\* --------------------------------------------------- the detector alone
\* One run of main() up to the return of compute_communities.
NextDetect ==
    \/ FilterEdges
    \/ BuildStart
    \/ BuildAddEdge
    \/ BuildEdgesDone
    \/ BuildAddNode
    \/ BuildReturn
    \/ DetectStart
    \/ LouvainPass
    \/ LouvainLevel
    \/ DetectReturn

SpecDetect == Init /\ [][NextDetect]_vars

\* The communities the current status holds.
CurrentComs == {lv.node2com[n] : n \in DOMAIN lv.node2com}

====
